---- MODULE Spec2Model ----
(***************************************************************************)
(* Photokiller: the capture session state machine of app/ui/main_window.py *)
(* (MainWindow), with the preview thread of app/ui/preview_widget.py, the  *)
(* capture entry point of app/capture, the session directory of            *)
(* app/utils/paths.py and the print dispatch of app/print/cups_print.py.   *)
(*                                                                         *)
(* The Qt event loop runs one handler at a time, so every handler (a       *)
(* button's clicked slot, a timer's timeout slot) is one atomic action.    *)
(* Handlers are written as operators from a system record S                *)
(* ([win, disk, jobs, log]) to the system record after the call, so that a *)
(* handler that calls another one is the composition of the two.  An       *)
(* exception that no handler catches ends the slot where it is raised:    *)
(* PySide6 prints the traceback and the event loop goes on.                *)
(*                                                                         *)
(* Spec is the window's state machine.  The library functions the window   *)
(* calls are also studied on their own, each under its own specification:  *)
(* FrameSpec (the frame slot and its mutex), ComposeSpec                   *)
(* (compose_10x15_strip), WebcamSpec (capture_webcam_photos), DslrSpec     *)
(* (capture_dslr_photos), CupsSpec (print_file_cups) and ThreadSpec (the   *)
(* preview thread's failures).                                             *)
(***************************************************************************)
EXTENDS Integers, Sequences, FiniteSets, TLC

VARIABLES
    config,   \* AppConfig: read once at start-up, never written
    win,      \* MainWindow: widgets' flags, timers and the session attributes
    cam,      \* CameraPreview thread: its position and the current-frame slot
    disk,     \* files under save_dir: path -> ordinal of the session that wrote it
    jobs,     \* submissions received by print_file_cups, in order
    clock,    \* wall-clock second, as read by make_session_dir
    log,      \* observations: counters of what the handlers did
    preview,  \* CameraPreview statement by statement: the frame slot, its mutex,
              \* the webcam loop's position and get_current_frame's position
    strip,    \* a call of compose_10x15_strip: its arguments, then its outcome
    shoot,    \* a call of capture_webcam_photos, read by read
    dslr,     \* a call of capture_dslr_photos, shot by shot
    cups,     \* a call of print_file_cups: its arguments, then its outcome
    thread    \* a run of CameraPreview._run_webcam_preview, with its failures

\* the library calls studied on their own; None while no such call is studied
lib == <<strip, shoot, dslr, cups, thread>>

vars == <<config, win, cam, disk, jobs, clock, log, preview, lib>>

(***************************************************************************)
(* Bounds of the model.                                                    *)
(***************************************************************************)
MaxCountdown == 1      \* session.countdown_seconds ranges over 0..MaxCountdown
MaxDelayHalves == 2    \* session.capture_delay ranges over 0, 0.5, .. MaxDelayHalves/2
MaxSessions == 2       \* sessions started in one run
MaxJobs == 1           \* submissions the print system accepts in one run
MaxFrames == 2         \* frames the webcam loop reads in one run
MaxReads == 2          \* get_current_frame calls in one run

(***************************************************************************)
(* Values.                                                                 *)
(***************************************************************************)
None == <<>>

ShotCounts == {1, 3}

\* mutant of ShotName: the file name does not carry the shot's index
ShotName_flat(k) == "shot_1.jpg"

\* f"shot_{k}.jpg"
ShotName(k) ==
    CASE k = 1 -> "shot_1.jpg"
      [] k = 2 -> "shot_2.jpg"
      [] k = 3 -> "shot_3.jpg"
      [] OTHER -> "shot_n.jpg"

\* session_dir / name
PathIn(dir, name) == <<dir, name>>

\* int(capture_delay), capture_delay held in half seconds
IntOfDelay(halves) == halves \div 2

\* the fields the configuration classes declare (capture_delay in half seconds)
CameraConfig == [mode : {"webcam", "dslr"}, skip_preview : BOOLEAN]

SessionConfig ==
    [countdown_seconds : 0..MaxCountdown, capture_delay : 0..MaxDelayHalves]

PrintConfig ==
    [enabled : BOOLEAN, printer_name : {""}, copies : {1},
     paper_size_mm : {<<100, 150>>}]

Configs == [camera : CameraConfig, session : SessionConfig, printing : PrintConfig]

\* obj.name on a configuration object: the value, or AttributeError
GetAttr(obj, name) ==
    IF name \in DOMAIN obj
    THEN [raised |-> "", v |-> obj[name]]
    ELSE [raised |-> "AttributeError", v |-> None]

PrinterListings == {<<>>, <<"selphy">>}

ComposeOutcomes == {"ok", "UnidentifiedImageError", "OSError"}

(***************************************************************************)
(* Init: the state MainWindow.__init__ leaves.                             *)
(***************************************************************************)
WinInit ==
    [ take_one_btn |-> TRUE,
      take_three_btn |-> TRUE,
      reprint_btn |-> FALSE,
      print_btn |-> TRUE,
      discard_btn |-> TRUE,
      countdown_visible |-> FALSE,
      review_visible |-> FALSE,
      photo_label |-> "",
      countdown_timer |-> FALSE,
      countdown_seconds |-> 0,
      single_shot |-> FALSE,
      has_session |-> FALSE,
      _pending_session |-> 0,
      _current_shot |-> 0,
      _captured_photos |-> <<>>,
      _session_dir |-> -1,
      last_composed_photo |-> None,
      status |-> "Ready" ]

CamInit(cfg) ==
    [ state |-> IF cfg.camera.skip_preview THEN "absent" ELSE "starting",
      _current_frame |-> FALSE,
      errors |-> 0 ]

LogInit ==
    [ sessions |-> 0,     \* sessions started (_start_countdown calls)
      shots |-> 0,        \* num_shots of the current session
      attempts |-> 0,     \* capture attempts of the current session
      composes |-> 0,     \* compose_10x15_strip calls of the current session
      reviews |-> 0,      \* _show_review/_show_error_review calls of the current session
      unhandled |-> "",   \* exception that left a slot of the current session
      ticks |-> 0,        \* timeouts of countdown_timer since it was last started
      fired |-> 0 ]       \* ticks at the latest capture attempt

\* CameraPreview.__init__ (lines 23-25), the loop at its head, no call of
\* get_current_frame under way; frames are numbered from 1, 0 is None
PreviewInit ==
    [ pc |-> "read",            \* the webcam loop's next statement
      img |-> 0,                \* the frame the loop holds
      frames |-> 0,             \* frames read from the device
      _current_frame |-> 0,     \* the slot
      _frame_mutex |-> "free",  \* who holds the mutex
      rpc |-> "idle",           \* get_current_frame's next statement
      result |-> 0,             \* what get_current_frame is about to return
      reads |-> 0 ]             \* calls of get_current_frame

LibAtRest ==
    /\ strip = None
    /\ shoot = None
    /\ dslr = None
    /\ cups = None
    /\ thread = None

Init ==
    /\ LibAtRest
    /\ preview = PreviewInit
    /\ config \in Configs
    /\ win = WinInit
    /\ cam = CamInit(config)
    /\ disk = <<>>
    /\ jobs = <<>>
    /\ clock = 0
    /\ log = LogInit

Sys == [win |-> win, disk |-> disk, jobs |-> jobs, log |-> log]

\* an exception leaves the slot: nothing after the raising call runs
Raise(S, exc) == [S EXCEPT !.log.unhandled = exc]

showMessage(S, text) == [S EXCEPT !.win.status = text]

\* a file write: the path now holds what session `who` wrote
WriteFile(d, path, who) == (path :> who) @@ d

(***************************************************************************)
(* app/utils/paths.py                                                      *)
(***************************************************************************)
\* strftime("%Y%m%d_%H%M%S") of the clock: one name per second
make_session_dir(now) == now

(***************************************************************************)
(* app/capture: the unified entry point and what each module does first    *)
(***************************************************************************)
\* argument values, by Python type
PathArg(dir) == [type |-> "Path", v |-> dir]
IntArg(n) == [type |-> "int", v |-> n]
MethodArg == [type |-> "method", v |-> 0]
NoneArg == [type |-> "NoneType", v |-> 0]

IsPath(v) == v.type = "Path"

\* the shots of `good` among 1..n, in index order, as paths of `dir`
RECURSIVE ShotPaths(_, _, _, _)
ShotPaths(dir, idx, n, good) ==
    IF idx > n THEN <<>>
    ELSE (IF idx \in good THEN <<PathIn(dir, ShotName(idx))>> ELSE <<>>)
         \o ShotPaths(dir, idx + 1, n, good)

\* capture_webcam_photos / capture_dslr_photos: both start with
\* output_dir.mkdir(...), then loop over range(num_photos); `good` are the
\* shots the device delivers
capture_module_photos(num_photos, output_dir, good) ==
    IF ~IsPath(output_dir)
    THEN [raised |-> "AttributeError", photos |-> <<>>]
    ELSE IF num_photos.type # "int"
    THEN [raised |-> "TypeError", photos |-> <<>>]
    ELSE [raised |-> "", photos |-> ShotPaths(output_dir.v, 1, num_photos.v, good)]

\* capture_photos(camera_mode, device_index, resolution, num_photos, output_dir,
\*                capture_delay=1.0, preview_callback=None): positional binding
capture_photos(camera_mode, device_index, resolution, num_photos, output_dir, good) ==
    IF camera_mode \in {"webcam", "dslr"}
    THEN capture_module_photos(num_photos, output_dir, good)
    ELSE [raised |-> "ValueError", photos |-> <<>>]

(***************************************************************************)
(* app/compose/layouts.py, as MainWindow sees it: the output path, or an   *)
(* exception from Image.open (line 34) or canvas.save (line 112)           *)
(***************************************************************************)
compose_10x15_strip(S, images, output_path, outcome) ==
    IF outcome = "ok"
    THEN [raised |-> "", path |-> output_path,
          S |-> [S EXCEPT !.disk = WriteFile(@, output_path, S.log.sessions)]]
    ELSE [raised |-> outcome, path |-> None, S |-> S]

(***************************************************************************)
(* app/print/cups_print.py                                                 *)
(***************************************************************************)
InListing(name, printers) == \E i \in 1..Len(printers) : printers[i] = name

\* print_file_cups(image_path, printer_name, copies, paper_name): the job
\* handed to conn.printFile, or the exception raised
print_file_cups(image_path, printer_name, copies, paper_name, printers, submit_ok) ==
    IF printer_name # "" /\ ~InListing(printer_name, printers)
    THEN [raised |-> "RuntimeError", job |-> None]
    ELSE IF printer_name = "" /\ printers = <<>>
    THEN [raised |-> "IndexError", job |-> None]
    ELSE IF ~submit_ok
    THEN [raised |-> "IPPError", job |-> None]
    ELSE [raised |-> "",
          job |-> [printer |-> IF printer_name # "" THEN printer_name ELSE printers[1],
                   file |-> image_path,
                   copies |-> copies,
                   media |-> paper_name]]

(***************************************************************************)
(* app/ui/main_window.py: ReviewWidget                                     *)
(***************************************************************************)
set_photo(S, photo_path) == [S EXCEPT !.win.photo_label = "photo"]

set_error_message(S, message) ==
    [S EXCEPT !.win.photo_label = "error",
              !.win.discard_btn = TRUE,
              !.win.print_btn = FALSE]

(***************************************************************************)
(* app/ui/main_window.py: MainWindow                                       *)
(***************************************************************************)
_show_review(S, photo_path) ==
    LET S1 == set_photo(S, photo_path)
    IN  [S1 EXCEPT !.win.review_visible = TRUE,
                   !.win.take_one_btn = TRUE,
                   !.win.take_three_btn = TRUE,
                   !.win.reprint_btn = TRUE,
                   !.log.reviews = @ + 1]

\* mutant of _show_error_review: the reprint button is enabled as in _show_review
_show_error_review_reprint(S, error_message) ==
    LET S1 == set_error_message(S, error_message)
    IN  [S1 EXCEPT !.win.review_visible = TRUE,
                   !.win.take_one_btn = TRUE,
                   !.win.take_three_btn = TRUE,
                   !.win.reprint_btn = TRUE,
                   !.log.reviews = @ + 1]

_show_error_review(S, error_message) ==
    LET S1 == set_error_message(S, error_message)
    IN  [S1 EXCEPT !.win.review_visible = TRUE,
                   !.win.take_one_btn = TRUE,
                   !.win.take_three_btn = TRUE,
                   !.win.reprint_btn = FALSE,
                   !.log.reviews = @ + 1]

\* delattr(self, '_pending_session'), '_current_shot', '_captured_photos'
DelSessionAttrs(S) ==
    [S EXCEPT !.win.has_session = FALSE,
              !.win._pending_session = 0,
              !.win._current_shot = 0,
              !.win._captured_photos = <<>>]

_finish_capture_session(S, env) ==
    IF S.win._captured_photos = <<>>
    THEN LET S1 == showMessage(S, "No photos captured - showing error review")
             S2 == _show_error_review(S1, "No photos were captured.")
         IN  [S2 EXCEPT !.win.take_one_btn = TRUE, !.win.take_three_btn = TRUE]
    ELSE LET S1 == showMessage(S, "Composing layout...")
             S2 == [S1 EXCEPT !.log.composes = @ + 1]
             r  == compose_10x15_strip(S2, S2.win._captured_photos,
                                       PathIn(S2.win._session_dir, "print.jpg"),
                                       env.compose)
         IN  IF r.raised # ""
             THEN Raise(r.S, r.raised)
             ELSE DelSessionAttrs(
                      _show_review([r.S EXCEPT !.win.last_composed_photo = r.path],
                                   r.path))

_start_shot_countdown(S) ==
    [S EXCEPT !.win.countdown_visible = TRUE,
              !.win.single_shot = TRUE]

_start_next_shot_countdown(S) ==
    [S EXCEPT !.win.countdown_seconds = IntOfDelay(config.session.capture_delay),
              !.win.countdown_timer = TRUE,
              !.log.ticks = 0]

\* mutant of MoreShotsNeeded: one shot more than asked for
MoreShotsNeeded_late(current_shot, num_shots) == current_shot < num_shots

\* mutant of MoreShotsNeeded: the last shot is never asked for
MoreShotsNeeded_early(current_shot, num_shots) == current_shot + 2 < num_shots

\* line 807: if current_shot + 1 < num_shots
MoreShotsNeeded(current_shot, num_shots) == current_shot + 1 < num_shots

\* CameraPreview.get_current_frame: a copy of the slot, or None (FALSE)
get_current_frame == cam._current_frame

\* old_path.rename(new_path)
Rename(d, old, new) ==
    IF old = new THEN d
    ELSE (new :> d[old]) @@ [p \in (DOMAIN d) \ {old} |-> d[p]]

\* the files a capture module leaves in output_dir
RECURSIVE WriteAll(_, _, _)
WriteAll(d, photos, who) ==
    IF photos = <<>> THEN d
    ELSE WriteAll(WriteFile(d, Head(photos), who), Tail(photos), who)

\* lines 749-804: the capture of one shot; the system after it, or the
\* exception that left it
CaptureCurrentShot(S, env) ==
    LET current_shot == S.win._current_shot
        new_path == PathIn(S.win._session_dir, ShotName(current_shot + 1))
    IN  IF config.camera.mode = "webcam"
           /\ cam.state # "absent" /\ ~config.camera.skip_preview
        THEN IF get_current_frame /\ env.save_ok
             THEN [raised |-> "",
                   S |-> [S EXCEPT !.disk = WriteFile(@, new_path, S.log.sessions),
                                   !.win._captured_photos = Append(@, new_path)]]
             ELSE [raised |-> "", S |-> S]
        ELSE LET r == capture_photos(config.camera.mode, 0, 0,
                                     PathArg(S.win._session_dir),
                                     IF config.camera.mode = "webcam"
                                     THEN MethodArg ELSE NoneArg,
                                     env.good)
             IN  IF r.raised # "" THEN [raised |-> r.raised, S |-> S]
                 ELSE IF r.photos # <<>>
                 THEN [raised |-> "",
                       S |-> [S EXCEPT
                                !.disk = Rename(WriteAll(@, r.photos, S.log.sessions),
                                                r.photos[1], new_path),
                                !.win._captured_photos = Append(@, new_path)]]
                 ELSE [raised |-> "", S |-> S]

_execute_single_capture(S, env) ==
    IF ~S.win.has_session THEN S
    ELSE LET S1 == [showMessage(S, "Capturing shot ...")
                       EXCEPT !.log.attempts = @ + 1,
                              !.log.fired = S.log.ticks]
             c  == CaptureCurrentShot(S1, env)
         IN  IF c.raised # "" THEN Raise(c.S, c.raised)
             ELSE IF MoreShotsNeeded(S.win._current_shot, S.win._pending_session)
             THEN _start_shot_countdown([c.S EXCEPT !.win._current_shot = @ + 1])
             ELSE _finish_capture_session(c.S, env)

\* mutant of _update_countdown: line 735 is missing, the timer keeps running
_update_countdown_running(S, env) ==
    IF S.win.countdown_seconds > 0
    THEN [S EXCEPT !.win.countdown_seconds = @ - 1]
    ELSE _execute_single_capture(S, env)

_update_countdown(S, env) ==
    IF S.win.countdown_seconds > 0
    THEN [S EXCEPT !.win.countdown_seconds = @ - 1]
    ELSE _execute_single_capture([S EXCEPT !.win.countdown_timer = FALSE], env)

\* mutant of _start_countdown: line 717 is missing, the reprint button stays
\* as it was
_start_countdown_reprint(S, num_shots, now, env) ==
    LET S1 == [S EXCEPT !.win.countdown_seconds = config.session.countdown_seconds,
                        !.win.countdown_visible = TRUE,
                        !.win.take_one_btn = FALSE,
                        !.win.take_three_btn = FALSE,
                        !.win.has_session = TRUE,
                        !.win._pending_session = num_shots,
                        !.win._current_shot = 0,
                        !.win._captured_photos = <<>>,
                        !.win._session_dir = make_session_dir(now),
                        !.win.countdown_timer = TRUE,
                        !.log = [sessions |-> @.sessions + 1,
                                 shots |-> num_shots,
                                 attempts |-> 0,
                                 composes |-> 0,
                                 reviews |-> 0,
                                 unhandled |-> "",
                                 ticks |-> 0,
                                 fired |-> 0]]
    IN  _update_countdown(S1, env)

_start_countdown(S, num_shots, now, env) ==
    LET S1 == [S EXCEPT !.win.countdown_seconds = config.session.countdown_seconds,
                        !.win.countdown_visible = TRUE,
                        !.win.take_one_btn = FALSE,
                        !.win.take_three_btn = FALSE,
                        !.win.reprint_btn = FALSE,
                        !.win.has_session = TRUE,
                        !.win._pending_session = num_shots,
                        !.win._current_shot = 0,
                        !.win._captured_photos = <<>>,
                        !.win._session_dir = make_session_dir(now),
                        !.win.countdown_timer = TRUE,
                        !.log = [sessions |-> @.sessions + 1,
                                 shots |-> num_shots,
                                 attempts |-> 0,
                                 composes |-> 0,
                                 reviews |-> 0,
                                 unhandled |-> "",
                                 ticks |-> 0,
                                 fired |-> 0]]
    IN  _update_countdown(S1, env)

_start_session(S, num_shots, now, env) == _start_countdown(S, num_shots, now, env)

\* mutant of _discard_photo: line 916 not commented out
_discard_photo_clears(S) ==
    LET S1 == [S EXCEPT !.win.review_visible = FALSE,
                        !.win.countdown_visible = FALSE,
                        !.win.last_composed_photo = None]
    IN  showMessage(S1, "Photo discarded (kept on disk)")

_discard_photo(S) ==
    LET S1 == [S EXCEPT !.win.review_visible = FALSE,
                        !.win.countdown_visible = FALSE]
    IN  showMessage(S1, "Photo discarded (kept on disk)")

\* mutant of TryPrint: the except clause drops the photo and the reprint button
TryPrint_forgets(S, env, done, failed) ==
    showMessage([S EXCEPT !.win.last_composed_photo = None,
                          !.win.reprint_btn = FALSE], failed)

\* lines 930-937 and 957-964: the try block and its except clause; the
\* arguments are evaluated before the call
TryPrint(S, env, done, failed) ==
    LET paper_name == GetAttr(config.printing, "paper_name")
    IN  IF paper_name.raised # ""
        THEN showMessage(S, failed)
        ELSE LET r == print_file_cups(S.win.last_composed_photo,
                                      config.printing.printer_name,
                                      config.printing.copies, paper_name.v,
                                      env.printers, env.submit_ok)
             IN  IF r.raised # ""
                 THEN showMessage(S, failed)
                 ELSE showMessage([S EXCEPT !.jobs = Append(@, r.job)], done)

\* mutant of _print_photo: the check of printing.enabled is missing
_print_photo_unchecked(S, env) ==
    IF S.win.last_composed_photo = None
    THEN showMessage(S, "No photo to print")
    ELSE LET S1 == TryPrint(S, env, "Photo printed successfully!", "Print error")
         IN  [S1 EXCEPT !.win.review_visible = FALSE,
                        !.win.countdown_visible = FALSE]

_print_photo(S, env) ==
    IF S.win.last_composed_photo = None
    THEN showMessage(S, "No photo to print")
    ELSE IF ~config.printing.enabled
    THEN showMessage(S, "Printing is disabled in config")
    ELSE LET S1 == TryPrint(S, env, "Photo printed successfully!", "Print error")
         IN  [S1 EXCEPT !.win.review_visible = FALSE,
                        !.win.countdown_visible = FALSE]

_reprint_last_photo(S, env) ==
    IF S.win.last_composed_photo = None
    THEN showMessage(S, "No photo to re-print")
    ELSE IF ~config.printing.enabled
    THEN showMessage(S, "Printing is disabled in config")
    ELSE TryPrint(S, env, "Photo re-printed successfully!", "Re-print error")

(***************************************************************************)
(* Actions: one per slot of the event loop and per step of the preview     *)
(* thread.  A QPushButton emits clicked only while it is enabled, and the  *)
(* buttons of the review overlay only while the overlay is shown.          *)
(***************************************************************************)
Apply(S) ==
    /\ win' = S.win
    /\ disk' = S.disk
    /\ jobs' = S.jobs
    /\ log' = S.log

CaptureEnvs == [save_ok : BOOLEAN, compose : ComposeOutcomes, good : {{}, {1}}]

PrintEnvs == [printers : PrinterListings, submit_ok : BOOLEAN]

\* time passes: the clock leaves the second the last session directory was
\* named after (later seconds are not told apart)
Advance(now) == IF now = win._session_dir THEN now + 1 ELSE now

\* take_one_btn / take_three_btn clicked: _start_session(1) / _start_session(3)
StartSession(n) ==
    /\ IF n = 1 THEN win.take_one_btn ELSE win.take_three_btn
    /\ log.sessions < MaxSessions
    /\ \E env \in CaptureEnvs : Apply(_start_session(Sys, n, clock, env))
    /\ UNCHANGED <<lib, preview, config, cam, clock>>

\* countdown_timer.timeout, every 1000 ms while the timer is active
CountdownTick ==
    /\ win.countdown_timer
    /\ \E env \in CaptureEnvs :
          Apply(_update_countdown([Sys EXCEPT !.log.ticks = @ + 1], env))
    /\ clock' = Advance(clock)
    /\ UNCHANGED <<lib, preview, config, cam>>

\* QTimer.singleShot(1500, self._start_next_shot_countdown)
SingleShotTimeout ==
    /\ win.single_shot
    /\ Apply(_start_next_shot_countdown([Sys EXCEPT !.win.single_shot = FALSE]))
    /\ clock' = Advance(clock)
    /\ UNCHANGED <<lib, preview, config, cam>>

\* review.discard_btn clicked, or Escape while the review is shown
DiscardClick ==
    /\ win.review_visible
    /\ win.discard_btn
    /\ Apply(_discard_photo(Sys))
    /\ UNCHANGED <<lib, preview, config, cam, clock>>

\* review.print_btn clicked
PrintClick ==
    /\ win.review_visible
    /\ win.print_btn
    /\ Len(jobs) < MaxJobs
    /\ \E env \in PrintEnvs : Apply(_print_photo(Sys, env))
    /\ UNCHANGED <<lib, preview, config, cam, clock>>

\* reprint_btn clicked
ReprintClick ==
    /\ win.reprint_btn
    /\ Len(jobs) < MaxJobs
    /\ \E env \in PrintEnvs : Apply(_reprint_last_photo(Sys, env))
    /\ UNCHANGED <<lib, preview, config, cam, clock>>

\* the wall clock moves on while nothing else happens
Tock ==
    /\ clock = win._session_dir
    /\ clock' = clock + 1
    /\ UNCHANGED <<lib, preview, config, win, cam, disk, jobs, log>>

\* CameraPreview.run: the device (webcam) or the gphoto2 probe (dslr) opens
\* or fails; a failure is emitted as error_occurred, which _on_camera_error
\* prints
PreviewOpen ==
    /\ cam.state = "starting"
    /\ \E ok \in BOOLEAN :
          cam' = IF ok THEN [cam EXCEPT !.state = "running"]
                 ELSE [cam EXCEPT !.state = "open_failed", !.errors = @ + 1]
    /\ UNCHANGED <<lib, preview, config, win, disk, jobs, clock, log>>

\* one turn of the webcam loop with a good read: the slot is replaced
PreviewFrame ==
    /\ cam.state = "running"
    /\ config.camera.mode = "webcam"
    /\ ~cam._current_frame
    /\ cam' = [cam EXCEPT !._current_frame = TRUE]
    /\ UNCHANGED <<lib, preview, config, win, disk, jobs, clock, log>>

Next ==
    \/ \E n \in ShotCounts : StartSession(n)
    \/ CountdownTick
    \/ SingleShotTimeout
    \/ DiscardClick
    \/ PrintClick
    \/ ReprintClick
    \/ Tock
    \/ PreviewOpen
    \/ PreviewFrame

Spec == Init /\ [][Next]_vars

(***************************************************************************)
(* app/ui/preview_widget.py, statement by statement: the webcam loop of    *)
(* the preview thread (lines 55-67) against get_current_frame (lines       *)
(* 154-157), which the main thread calls.  The window does not move here.  *)
(***************************************************************************)
\* mutant of MutexFree: the locker does not wait
MutexFree_nowait(p) == TRUE

\* QMutexLocker(self._frame_mutex) returns once nobody holds the mutex
MutexFree(p) == p._frame_mutex = "free"

FrameInit ==
    /\ config \in {c \in Configs : c.camera.mode = "webcam" /\ ~c.camera.skip_preview}
    /\ win = WinInit
    /\ cam = [CamInit(config) EXCEPT !.state = "running"]
    /\ disk = <<>>
    /\ jobs = <<>>
    /\ clock = 0
    /\ log = LogInit
    /\ preview = PreviewInit
    /\ LibAtRest

WindowUnchanged == UNCHANGED <<lib, config, win, cam, disk, jobs, clock, log>>

\* line 56-59: ok, frame = cap.read(); a failed read sleeps and reads again
CapRead ==
    /\ preview.pc = "read"
    /\ preview.frames < MaxFrames
    /\ \E ok \in BOOLEAN :
          preview' = IF ok
                     THEN [preview EXCEPT !.frames = @ + 1, !.img = preview.frames + 1,
                                          !.pc = "emit"]
                     ELSE [preview EXCEPT !.pc = "sleep"]
    /\ WindowUnchanged

\* line 58: time.sleep(0.05); continue
ReadRetry ==
    /\ preview.pc = "sleep"
    /\ preview' = [preview EXCEPT !.pc = "read"]
    /\ WindowUnchanged

\* lines 60-63: self.frame_ready.emit(img.copy())
EmitFrame ==
    /\ preview.pc = "emit"
    /\ preview' = [preview EXCEPT !.pc = "lock"]
    /\ WindowUnchanged

\* line 66: with QMutexLocker(self._frame_mutex)
WriterLock ==
    /\ preview.pc = "lock"
    /\ MutexFree(preview)
    /\ preview' = [preview EXCEPT !._frame_mutex = "preview", !.pc = "store"]
    /\ WindowUnchanged

\* line 67: self._current_frame = img.copy()
WriterStore ==
    /\ preview.pc = "store"
    /\ preview' = [preview EXCEPT !._current_frame = preview.img, !.pc = "unlock"]
    /\ WindowUnchanged

\* the end of the with block of line 66
WriterUnlock ==
    /\ preview.pc = "unlock"
    /\ preview' = [preview EXCEPT !._frame_mutex = "free", !.pc = "read"]
    /\ WindowUnchanged

\* the main thread calls get_current_frame (line 751)
ReaderCall ==
    /\ preview.rpc = "idle"
    /\ preview.reads < MaxReads
    /\ preview' = [preview EXCEPT !.reads = @ + 1, !.result = 0, !.rpc = "lock"]
    /\ WindowUnchanged

\* line 156: with QMutexLocker(self._frame_mutex)
ReaderLock ==
    /\ preview.rpc = "lock"
    /\ MutexFree(preview)
    /\ preview' = [preview EXCEPT !._frame_mutex = "main", !.rpc = "test"]
    /\ WindowUnchanged

\* line 157: ... if self._current_frame else None
ReaderTest ==
    /\ preview.rpc = "test"
    /\ preview' = IF preview._current_frame # 0
                  THEN [preview EXCEPT !.rpc = "copy"]
                  ELSE [preview EXCEPT !.result = 0, !.rpc = "unlock"]
    /\ WindowUnchanged

\* line 157: self._current_frame.copy()
ReaderCopy ==
    /\ preview.rpc = "copy"
    /\ preview' = [preview EXCEPT !.result = preview._current_frame, !.rpc = "unlock"]
    /\ WindowUnchanged

\* the end of the with block of line 156, and the return
ReaderUnlock ==
    /\ preview.rpc = "unlock"
    /\ preview' = [preview EXCEPT !._frame_mutex = "free", !.rpc = "idle"]
    /\ WindowUnchanged

FrameNext ==
    \/ CapRead
    \/ ReadRetry
    \/ EmitFrame
    \/ WriterLock
    \/ WriterStore
    \/ WriterUnlock
    \/ ReaderCall
    \/ ReaderLock
    \/ ReaderTest
    \/ ReaderCopy
    \/ ReaderUnlock

FrameSpec == FrameInit /\ [][FrameNext]_vars

(***************************************************************************)
(* The session state of the specification, read off the window.            *)
(***************************************************************************)
SessionInProgress == ~win.take_one_btn

SessionState ==
    IF win.countdown_timer THEN "CountingDown"
    ELSE IF win.single_shot THEN "AwaitingNextShot"
    ELSE IF SessionInProgress
    THEN (IF log.composes > 0 THEN "Composing" ELSE "Capturing")
    ELSE IF win.review_visible
    THEN (IF win.photo_label = "error" THEN "ErrorReview" ELSE "Reviewing")
    ELSE "Idle"

\* the session is over: one of the two review screens was entered
SessionEnded == log.reviews >= 1

(***************************************************************************)
(* C1.  Every started session reaches Reviewing or ErrorReview after       *)
(* exactly shot_count capture attempts, in every camera configuration and  *)
(* whether attempts succeed or fail; it is never left in Capturing with    *)
(* the start controls disabled.  As a safety property: a session in        *)
(* progress always has a timer event pending that carries it on, and a     *)
(* session that ended made exactly shot_count attempts.                    *)
(***************************************************************************)
C1_SessionReachesReview ==
    /\ SessionInProgress => (win.countdown_timer \/ win.single_shot)
    /\ SessionEnded => log.attempts = log.shots

C3_ErrorReviewPrintIsNoOp ==
    SessionState = "ErrorReview" =>
        /\ ~win.print_btn
        /\ \A env \in PrintEnvs :
              _print_photo(Sys, env) =
                  [Sys EXCEPT !.win.status = "No photo to print"]

(***************************************************************************)
(* C4.  With printing enabled and a composed photo, a print intent in      *)
(* Reviewing and a reprint intent in Idle each make exactly one submission *)
(* to print_file_cups, carrying the composed file and the configured copy  *)
(* count.                                                                  *)
(***************************************************************************)
C4_PrintSubmitsOnce ==
    [][ ( /\ config.printing.enabled
          /\ win.last_composed_photo # None
          /\ \/ PrintClick /\ SessionState = "Reviewing"
             \/ ReprintClick /\ SessionState = "Idle" )
        => /\ Len(jobs') = Len(jobs) + 1
           /\ jobs'[Len(jobs')].file = win.last_composed_photo
           /\ jobs'[Len(jobs')].copies = config.printing.copies ]_vars

(***************************************************************************)
(* C5.  With printing disabled in the configuration nothing is ever        *)
(* submitted to the print system, and every print and reprint intent       *)
(* yields the status message "Printing is disabled in config".             *)
(***************************************************************************)
C5_DisabledNeverSubmits ==
    /\ [](~config.printing.enabled => jobs = <<>>)
    /\ [][ (~config.printing.enabled /\ (PrintClick \/ ReprintClick))
           => /\ jobs' = jobs
              /\ win'.status = "Printing is disabled in config" ]_vars

\* printing is disabled, a photo exists and the last intent was refused
C5_Witness ==
    /\ ~config.printing.enabled
    /\ win.last_composed_photo # None
    /\ win.status = "Printing is disabled in config"
    /\ jobs = <<>>

(***************************************************************************)
(* C6.  A print intent in Reviewing always returns the session to Idle,    *)
(* with the review screen and the countdown overlay hidden, whether the    *)
(* dispatch succeeds, fails, or printing is disabled.                      *)
(***************************************************************************)
C6_PrintReturnsToIdle ==
    [][ (PrintClick /\ SessionState = "Reviewing")
        => /\ SessionState' = "Idle"
           /\ ~win'.review_visible
           /\ ~win'.countdown_visible ]_vars

(***************************************************************************)
(* C7.  When composition fails with at least one photo captured, the       *)
(* session leaves Capturing/Composing, an error is shown and the           *)
(* session-start controls are enabled again.                               *)
(***************************************************************************)
CompositionFailed == log.unhandled \in (ComposeOutcomes \ {"ok"})

C7_CompositionFailureSurfaced ==
    CompositionFailed =>
        /\ SessionState \notin {"Capturing", "Composing"}
        /\ win.take_one_btn /\ win.take_three_btn
        /\ win.review_visible /\ win.photo_label = "error"

(***************************************************************************)
(* C8.  Once the camera device has failed to open, no session starts: a    *)
(* start-session intent is blocked before any countdown.                   *)
(***************************************************************************)
C8_OpenFailureBlocksCountdown ==
    [][ cam.state = "open_failed" => log.sessions' = log.sessions ]_vars

(***************************************************************************)
(* C9.  A failed print or reprint is a status message only: the reference  *)
(* to the composed photo, the files on disk and the reprint control are    *)
(* left as they were, nothing is submitted, and with no session in         *)
(* progress the reprint control is enabled afterwards.                     *)
(***************************************************************************)
PrintFailureMessages == {"Print error", "Re-print error"}

C9_PrintFailureKeepsPhoto ==
    [][ ((PrintClick \/ ReprintClick) /\ win'.status \in PrintFailureMessages)
        => /\ win.last_composed_photo # None
           /\ win'.last_composed_photo = win.last_composed_photo
           /\ disk' = disk
           /\ jobs' = jobs
           /\ win'.reprint_btn = win.reprint_btn
           /\ ~SessionInProgress => win'.reprint_btn ]_vars

\* a print failed; the composed file is still there and can be reprinted
C9_Witness ==
    /\ win.status = "Print error"
    /\ win.last_composed_photo # None
    /\ win.last_composed_photo \in DOMAIN disk
    /\ win.reprint_btn
    /\ SessionState = "Idle"

(***************************************************************************)
(* C10.  A discard intent deletes and rewrites no file, keeps the          *)
(* reference to the last composed photo, and changes nothing but the       *)
(* visibility of the two overlays (and the status line).                   *)
(***************************************************************************)
C10_DiscardKeepsFiles ==
    [][ DiscardClick
        => /\ disk' = disk
           /\ jobs' = jobs
           /\ win'.last_composed_photo = win.last_composed_photo
           /\ win' = [win EXCEPT !.review_visible = FALSE,
                                 !.countdown_visible = FALSE,
                                 !.status = "Photo discarded (kept on disk)"] ]_vars

\* a reviewed photo was discarded: its files and its reference remain
C10_Witness ==
    /\ win.status = "Photo discarded (kept on disk)"
    /\ ~win.review_visible
    /\ win.last_composed_photo # None
    /\ win.last_composed_photo \in DOMAIN disk
    /\ PathIn(win._session_dir, ShotName(1)) \in DOMAIN disk

(***************************************************************************)
(* C11.  From the start of a session until it enters Reviewing or          *)
(* ErrorReview (first countdown, captures, the pause between shots, later  *)
(* countdowns) the take-1, take-3 and reprint buttons are all disabled,    *)
(* and a session starts only when no other session is active.              *)
(***************************************************************************)
SessionActive == log.sessions > 0 /\ log.reviews = 0

C11_ControlsDisabledDuringSession ==
    /\ [](SessionActive =>
            ~win.take_one_btn /\ ~win.take_three_btn /\ ~win.reprint_btn)
    /\ []((win.countdown_timer \/ win.single_shot) => SessionActive)
    /\ [][ log'.sessions # log.sessions => ~SessionActive ]_vars

\* the pause before shot 2 of a session that follows a composed one: the
\* reprint button, enabled by the first session, is disabled again
C11_Witness ==
    /\ win.single_shot
    /\ log.sessions = 2
    /\ log.attempts = 1
    /\ win.last_composed_photo # None
    /\ ~win.take_one_btn /\ ~win.take_three_btn /\ ~win.reprint_btn

(***************************************************************************)
(* C12.  The reprint button is enabled only while a composed photo is      *)
(* referenced; after a session ends in ErrorReview it is disabled and      *)
(* stays so, through discard and in Idle, until a later session shows its  *)
(* composed photo.                                                         *)
(***************************************************************************)
C12_ReprintOnlyWithPhoto ==
    /\ [](win.reprint_btn => win.last_composed_photo # None)
    /\ [](win.photo_label = "error" => ~win.reprint_btn)
    /\ [][ (win'.reprint_btn /\ ~win.reprint_btn)
           => /\ log'.composes = 1
              /\ win'.photo_label = "photo"
              /\ win'.last_composed_photo # None ]_vars

\* back in Idle after the ErrorReview of a session that followed a composed
\* one: the reprint button is still disabled
C12_Witness ==
    /\ SessionState = "Idle"
    /\ win.photo_label = "error"
    /\ win.status = "Photo discarded (kept on disk)"
    /\ log.sessions = 2
    /\ win.last_composed_photo # None
    /\ ~win.reprint_btn

(***************************************************************************)
(* C13.  last_composed_photo is set if and only if the composition of the  *)
(* current session has run to completion: from the start of a session      *)
(* until its own composition completes, and throughout a session that ends *)
(* in ErrorReview, it does not name the composed file of an earlier        *)
(* session.                                                                *)
(***************************************************************************)
CompositionCompleted == log.composes = 1 /\ log.reviews = 1

C13_ComposedPathIffCompleted ==
    (win.last_composed_photo # None) <=> CompositionCompleted

(***************************************************************************)
(* C14.  Every session gets a directory no earlier session used, whenever  *)
(* the sessions are started, so no session writes over a file (shot_N.jpg, *)
(* print.jpg) that an earlier session wrote.                               *)
(***************************************************************************)
DirsInUse == {win._session_dir} \cup {p[1] : p \in DOMAIN disk}

C14_FreshSessionDir ==
    /\ [][ log'.sessions # log.sessions => win'._session_dir \notin DirsInUse ]_vars
    /\ [][ \A p \in DOMAIN disk : p \in DOMAIN disk' /\ disk'[p] = disk[p] ]_vars

(***************************************************************************)
(* C15.  Within a session the recorded captured paths are files of the     *)
(* session directory with strictly increasing shot indices (so no two are  *)
(* equal), and the k-th capture attempt can only record shot_k.jpg,        *)
(* whichever attempts fail.                                                *)
(***************************************************************************)
ShotIndex(path) ==
    CASE path[2] = "shot_1.jpg" -> 1
      [] path[2] = "shot_2.jpg" -> 2
      [] path[2] = "shot_3.jpg" -> 3
      [] OTHER -> 0

C15_ShotsOrdered ==
    /\ [](\A i \in 1..Len(win._captured_photos) :
            /\ win._captured_photos[i][1] = win._session_dir
            /\ ShotIndex(win._captured_photos[i]) \in 1..log.attempts
            /\ \A j \in 1..Len(win._captured_photos) :
                  i < j => ShotIndex(win._captured_photos[i])
                              < ShotIndex(win._captured_photos[j]))
    /\ [][ Len(win'._captured_photos) > Len(win._captured_photos)
           => /\ Len(win'._captured_photos) = Len(win._captured_photos) + 1
              /\ ShotIndex(win'._captured_photos[Len(win'._captured_photos)])
                    = log'.attempts ]_vars

\* shots 1 and 3 of a three-shot session were recorded, shot 2 failed
C15_Witness ==
    /\ log.shots = 3
    /\ log.attempts = 3
    /\ win._captured_photos = << PathIn(win._session_dir, "shot_1.jpg"),
                                 PathIn(win._session_dir, "shot_3.jpg") >>

(***************************************************************************)
(* C16.  At every moment of a session the number of recorded captured      *)
(* paths is at most the number of capture attempts made so far, which is   *)
(* at most the requested shot_count.                                       *)
(***************************************************************************)
C16_CapturedAtMostAttempts ==
    /\ Len(win._captured_photos) <= log.attempts
    /\ log.attempts <= log.shots
    /\ win.has_session => log.shots = win._pending_session

\* in the pause before shot 3: two attempts made, one of them recorded
C16_Witness ==
    /\ win.single_shot
    /\ log.shots = 3
    /\ log.attempts = 2
    /\ Len(win._captured_photos) = 1

(***************************************************************************)
(* C17.  Every session enters a review state (Reviewing or ErrorReview)    *)
(* exactly once: never twice, with no timer tick or single-shot callback   *)
(* left pending once it has, and a session with no timer event pending any *)
(* more has entered it.                                                    *)
(***************************************************************************)
TimerEventPending == win.countdown_timer \/ win.single_shot

C17_ReviewExactlyOnce ==
    /\ log.reviews <= 1
    /\ SessionEnded => ~TimerEventPending
    /\ (log.sessions > 0 /\ ~TimerEventPending) => log.reviews = 1

(***************************************************************************)
(* C18.  Under every interleaving of the preview thread's loop and the     *)
(* main thread's get_current_frame calls, a write of the frame slot and a  *)
(* read of it never overlap; the slot changes only in the preview thread's *)
(* locked store, by a whole-frame replacement with the newest frame; and a *)
(* read returns None (no frame stored yet) or the content of the slot,     *)
(* which is the most recently completed write.                             *)
(***************************************************************************)
InWriterSection == preview.pc \in {"store", "unlock"}

InReaderSection == preview.rpc \in {"test", "copy", "unlock"}

\* the last frame whose store has completed (0: none)
LatestCompletedWrite ==
    IF preview.pc \in {"emit", "lock", "store"} THEN preview.frames - 1
    ELSE preview.frames

C18_FrameSlotExclusive ==
    /\ [](~(InWriterSection /\ InReaderSection))
    /\ [](preview._current_frame = LatestCompletedWrite)
    /\ [](preview.rpc = "unlock" =>
            /\ preview.result = preview._current_frame
            /\ preview.result = LatestCompletedWrite)
    /\ [][ preview'._current_frame # preview._current_frame
           => /\ preview.pc = "store"
              /\ preview._frame_mutex = "preview"
              /\ ~InReaderSection
              /\ preview'._current_frame = preview.img ]_vars

\* a read is returning frame 1 while the loop, holding frame 2, waits for
\* the mutex
C18_Witness ==
    /\ preview.rpc = "unlock"
    /\ preview.result = 1
    /\ preview._frame_mutex = "main"
    /\ preview.pc = "lock"
    /\ preview.img = 2

(***************************************************************************)
(* C19.  Each countdown that reaches zero triggers exactly one capture     *)
(* attempt: the timeout that finds the count at zero stops the timer and   *)
(* makes one attempt, a timeout that finds it above zero makes none, and   *)
(* no attempt is made in any other way until a countdown is started again. *)
(***************************************************************************)
C19_ZeroTriggersOneCapture ==
    /\ [](win.countdown_timer => win.has_session)
    /\ [][ (CountdownTick /\ win.countdown_seconds = 0)
           => log'.attempts = log.attempts + 1 /\ ~win'.countdown_timer ]_vars
    /\ [][ (CountdownTick /\ win.countdown_seconds > 0)
           => log'.attempts = log.attempts /\ win'.countdown_timer ]_vars
    /\ [][ log'.attempts # log.attempts
           => \/ /\ win.countdown_timer /\ win.countdown_seconds = 0
                 /\ log'.sessions = log.sessions
                 /\ log'.attempts = log.attempts + 1
                 /\ ~win'.countdown_timer
              \/ /\ log'.sessions = log.sessions + 1
                 /\ log'.attempts =
                       (IF config.session.countdown_seconds = 0 THEN 1 ELSE 0)
                 /\ win'.countdown_timer = (log'.attempts = 0) ]_vars

\* the second countdown of a three-shot session reached zero and fired the
\* second attempt: the timer is stopped and the pause before shot 3 runs
C19_Witness ==
    /\ log.shots = 3
    /\ log.attempts = 2
    /\ ~win.countdown_timer
    /\ win.single_shot
    /\ win.countdown_seconds = 0

(***************************************************************************)
(* C20.  Every capture attempt happens exactly d timer intervals after its *)
(* countdown was started, d being countdown_seconds for the first shot of  *)
(* a session and int(capture_delay) for each later shot.                   *)
(***************************************************************************)
C20_CaptureAfterDelay ==
    log.attempts >= 1 =>
        log.fired = (IF log.attempts = 1
                     THEN config.session.countdown_seconds
                     ELSE IntOfDelay(config.session.capture_delay))

(***************************************************************************)
(* C21.  Whenever a session is in Reviewing (its composed photo is shown)  *)
(* the print button is enabled, whatever sessions came before, an earlier  *)
(* ErrorReview included.                                                   *)
(***************************************************************************)
C21_PrintEnabledInReviewing ==
    SessionState = "Reviewing" => win.print_btn

(***************************************************************************)
(* C22.  A session starts only from Idle: while the review screen is shown *)
(* (Reviewing or ErrorReview) the take-1 and take-3 buttons are disabled,   *)
(* and no countdown is started on top of a shown review.                   *)
(***************************************************************************)
C22_StartOnlyFromIdle ==
    /\ [](win.review_visible => ~win.take_one_btn /\ ~win.take_three_btn)
    /\ [][ log'.sessions # log.sessions => SessionState = "Idle" ]_vars

(***************************************************************************)
(* app/compose/layouts.py: compose_10x15_strip on its own.  The canvas is  *)
(* the sequence of the layers drawn on it, bottom first.  A mask argument  *)
(* is None, or a path whose file is missing, is not an image, or is an     *)
(* image; a photo is a file that opens as an image of some size, or not.   *)
(***************************************************************************)
canvas_w == 1200

canvas_h == 1800

image_w == 543

image_h == 413

margin_mm == 24

split_canvas_w == canvas_w \div 2

available_height == canvas_h - 300

total_image_height == image_h * 3

remaining_height == available_height - total_image_height

\* mutant of spacing: the height left over is shared among three gaps
spacing_three == remaining_height \div 3

spacing == remaining_height \div 4

MaskArgs == {"None", "missing", "corrupt", "image"}

Photos ==
    { [name |-> "wide", opens |-> TRUE, width |-> 640, height |-> 480],
      [name |-> "tall", opens |-> TRUE, width |-> 480, height |-> 640],
      [name |-> "bad", opens |-> FALSE, width |-> 0, height |-> 0] }

\* the modes Image.convert accepts
PILModes == {"1", "L", "P", "RGB", "RGBA", "CMYK", "YCbCr", "LAB", "HSV", "I", "F"}

\* Image.convert(mode): the image in that mode, or ValueError
convert(mode) == IF mode \in PILModes THEN "" ELSE "ValueError"

\* the body of a mask's try block (lines 18-28, 98-107): Image.open, resize,
\* convert, Image.alpha_composite(canvas.convert(canvas_mode), mask); any
\* exception is caught and printed, and the canvas stays as it was
alpha_composite(canvas, mask, canvas_mode, layer) ==
    IF mask \in {"None", "missing"} THEN canvas
    ELSE IF mask = "corrupt" THEN canvas
    ELSE IF convert(canvas_mode) # "" THEN canvas
    ELSE Append(canvas, [kind |-> layer, photo |-> "", box |-> <<0, 0, canvas_w, canvas_h>>,
                         crop |-> <<>>])

\* lines 64-79: the crop box that keeps the ratio image_w / image_h
CropBox(ph) ==
    IF ph.width * image_h > ph.height * image_w
    THEN LET new_width == (ph.height * image_w) \div image_h
             left == (ph.width - new_width) \div 2
         IN  <<left, 0, left + new_width, ph.height>>
    ELSE LET new_height == (ph.width * image_h) \div image_w
             top == (ph.height - new_height) \div 2
         IN  <<0, top, ph.width, top + new_height>>

\* imgs[:3]
FirstThree(imgs) == SubSeq(imgs, 1, IF Len(imgs) < 3 THEN Len(imgs) ELSE 3)

\* lines 57-93: each photo pasted left and right at y, y moving down
RECURSIVE PasteRows(_, _)
PasteRows(imgs, y) ==
    IF imgs = <<>> THEN <<>>
    ELSE LET ph == Head(imgs)
             x_left == (split_canvas_w - image_w) \div 2
             x_right == (split_canvas_w - image_w) \div 2 + split_canvas_w
         IN  << [kind |-> "photo", photo |-> ph.name,
                 box |-> <<x_left, y, image_w, image_h>>, crop |-> CropBox(ph)],
                [kind |-> "photo", photo |-> ph.name,
                 box |-> <<x_right, y, image_w, image_h>>, crop |-> CropBox(ph)] >>
             \o PasteRows(Tail(imgs), y + image_h + spacing)

\* mutant of Triplicate: a single photo is placed once
Triplicate_once(imgs) == imgs

\* lines 36-37
Triplicate(imgs) == IF Len(imgs) = 1 THEN imgs \o imgs \o imgs ELSE imgs

\* mutant of SaveCanvas: a failed save is printed and the path returned
SaveCanvas_quiet(canvas, output_path, save_ok) ==
    [raised |-> "", path |-> output_path,
     file |-> IF save_ok THEN canvas ELSE None]

\* lines 111-113: canvas.save(output_path, quality=95); return output_path
SaveCanvas(canvas, output_path, save_ok) ==
    IF save_ok
    THEN [raised |-> "", path |-> output_path, file |-> canvas]
    ELSE [raised |-> "OSError", path |-> None, file |-> None]

\* compose_10x15_strip(images, output_path, base_mask_path,
\* background_mask_path): the path returned and the file written, or the
\* exception raised
compose_canvas(images, output_path, base_mask_path, background_mask_path, save_ok) ==
    LET white == << [kind |-> "white", photo |-> "",
                     box |-> <<0, 0, canvas_w, canvas_h>>, crop |-> <<>>] >>
        c1 == alpha_composite(white, background_mask_path, "RGBAA", "background")
    IN  IF \E i \in 1..Len(images) : ~images[i].opens
        THEN [raised |-> "UnidentifiedImageError", path |-> None, file |-> None]
        ELSE LET imgs == Triplicate(images)
                 c2 == c1 \o PasteRows(FirstThree(imgs), margin_mm + spacing)
                 c3 == alpha_composite(c2, base_mask_path, "RGBA", "base")
             IN  SaveCanvas(c3, output_path, save_ok)

RECURSIVE SeqsUpTo(_, _)
SeqsUpTo(S, n) ==
    IF n = 0 THEN {<<>>}
    ELSE LET shorter == SeqsUpTo(S, n - 1)
         IN  shorter \cup {Append(q, x) : q \in shorter, x \in S}

MaxPhotos == 4   \* photos handed to one compose_10x15_strip call

ComposeCalls ==
    [ pc : {"call"},
      images : SeqsUpTo(Photos, MaxPhotos),
      base_mask_path : MaskArgs,
      background_mask_path : MaskArgs,
      save_ok : BOOLEAN,
      out : {None} ]

\* the window and the other calls, at rest
WindowAtRest ==
    /\ config = CHOOSE c \in Configs : TRUE
    /\ win = WinInit
    /\ cam = CamInit(config)
    /\ disk = <<>>
    /\ jobs = <<>>
    /\ clock = 0
    /\ log = LogInit
    /\ preview = PreviewInit

ComposeInit ==
    /\ WindowAtRest
    /\ strip \in ComposeCalls
    /\ shoot = None
    /\ dslr = None
    /\ cups = None
    /\ thread = None

ComposeCall ==
    /\ strip.pc = "call"
    /\ strip' = [strip EXCEPT
                    !.pc = "done",
                    !.out = compose_canvas(strip.images, "print.jpg",
                                           strip.base_mask_path,
                                           strip.background_mask_path,
                                           strip.save_ok)]
    /\ UNCHANGED <<config, win, cam, disk, jobs, clock, log, preview,
                   shoot, dslr, cups, thread>>

ComposeSpec == ComposeInit /\ [][ComposeCall]_vars

ComposeReturned == strip.pc = "done" /\ strip.out.raised = ""

IsPhotoLayer(l) == l.kind = "photo"

\* the photo layers of the written file, in drawing order
PhotoLayers == SelectSeq(strip.out.file, IsPhotoLayer)

LayerKinds(canvas) == [i \in 1..Len(canvas) |-> canvas[i].kind]

(***************************************************************************)
(* C23.  The composed canvas is this layer stack, bottom to top: the white *)
(* fill, the background mask whenever one is supplied and its file is a    *)
(* loadable image, the photos, and the base mask whenever one is supplied  *)
(* and loadable.                                                           *)
(***************************************************************************)
C23_LayerStack ==
    ComposeReturned =>
        LayerKinds(strip.out.file) =
            <<"white">>
            \o (IF strip.background_mask_path = "image"
                THEN <<"background">> ELSE <<>>)
            \o [i \in 1..Len(PhotoLayers) |-> "photo"]
            \o (IF strip.base_mask_path = "image" THEN <<"base">> ELSE <<>>)

(***************************************************************************)
(* C24.  In compose_10x15_strip a mask that cannot be loaded or applied is *)
(* skipped: with readable photos and a working save the file is written    *)
(* and its path returned whatever the masks are; a failed save of the      *)
(* canvas reaches the caller as an exception and no path is returned.      *)
(***************************************************************************)
PhotosOpen == \A i \in 1..Len(strip.images) : strip.images[i].opens

C24_MaskFailureNonFatal ==
    (strip.pc = "done" /\ PhotosOpen) =>
        /\ strip.save_ok =>
              /\ strip.out.raised = ""
              /\ strip.out.path = "print.jpg"
              /\ strip.out.file # None
              /\ \A i \in 1..Len(strip.out.file) :
                    /\ strip.out.file[i].kind = "background"
                          => strip.background_mask_path = "image"
                    /\ strip.out.file[i].kind = "base"
                          => strip.base_mask_path = "image"
        /\ ~strip.save_ok =>
              /\ strip.out.raised # ""
              /\ strip.out.path = None

\* neither mask file is an image: the strip of the photos alone was written
C24_Witness ==
    /\ ComposeReturned
    /\ strip.background_mask_path = "corrupt"
    /\ strip.base_mask_path = "corrupt"
    /\ strip.out.path = "print.jpg"
    /\ Len(PhotoLayers) = 6
    /\ Len(strip.out.file) = 7

(***************************************************************************)
(* C25.  Composing one photo p gives what composing <<p, p, p>> gives: p   *)
(* fills all three rows; and of any input only the first three photos are  *)
(* placed, in order, each in the two columns of its row.                   *)
(***************************************************************************)
C25_SingleIsTriple ==
    ComposeReturned =>
        /\ Len(strip.images) = 1 =>
              /\ strip.out =
                    compose_canvas(strip.images \o strip.images \o strip.images,
                                   "print.jpg", strip.base_mask_path,
                                   strip.background_mask_path, strip.save_ok)
              /\ Len(PhotoLayers) = 6
              /\ \A i \in 1..6 : PhotoLayers[i].photo = strip.images[1].name
        /\ Len(strip.images) # 1 =>
              /\ Len(PhotoLayers) =
                    2 * (IF Len(strip.images) < 3 THEN Len(strip.images) ELSE 3)
              /\ \A i \in 1..Len(PhotoLayers) :
                    PhotoLayers[i].photo = strip.images[(i + 1) \div 2].name

\* one photo was composed: it fills the six slots
C25_Witness ==
    /\ ComposeReturned
    /\ Len(strip.images) = 1
    /\ Len(PhotoLayers) = 6
    /\ PhotoLayers[1].box # PhotoLayers[5].box

(***************************************************************************)
(* C26.  In the three-row, two-column layout each of the six 543 x 413     *)
(* slots lies inside the 1200 x 1800 canvas, no two slots overlap, the gap *)
(* between consecutive rows is the same, the two copies of a row have the  *)
(* same vertical offset, and no slot reaches into the bottom 300 pixels.   *)
(***************************************************************************)
Overlap(a, b) ==
    /\ a[1] < b[1] + b[3] /\ b[1] < a[1] + a[3]
    /\ a[2] < b[2] + b[4] /\ b[2] < a[2] + a[4]

C26_SlotGeometry ==
    (ComposeReturned /\ Len(PhotoLayers) = 6) =>
        LET box(i) == PhotoLayers[i].box
        IN  /\ \A i \in 1..6 :
                  /\ box(i)[3] = 543 /\ box(i)[4] = 413
                  /\ box(i)[1] >= 0 /\ box(i)[1] + box(i)[3] <= 1200
                  /\ box(i)[2] >= 0 /\ box(i)[2] + box(i)[4] <= 1800 - 300
            /\ \A i, j \in 1..6 : i # j => ~Overlap(box(i), box(j))
            /\ \A r \in 1..3 :
                  /\ box(2 * r - 1)[2] = box(2 * r)[2]
                  /\ box(2 * r - 1)[1] < box(2 * r)[1]
            /\ box(3)[2] - (box(1)[2] + 413) = box(5)[2] - (box(3)[2] + 413)
            /\ box(3)[2] > box(1)[2]

\* three different rows were laid out
C26_Witness ==
    /\ ComposeReturned
    /\ Len(strip.images) = 3
    /\ Len(PhotoLayers) = 6
    /\ PhotoLayers[1].photo = "wide"
    /\ PhotoLayers[3].photo = "tall"
    /\ PhotoLayers[6].box = <<628, 1045, 543, 413>>

(***************************************************************************)
(* app/capture/webcam.py: capture_webcam_photos on its own, read by read.  *)
(* A read is good when ok is true and the frame is there and not empty.    *)
(***************************************************************************)
MaxPhotosAsked == 2   \* num_photos of one capture_webcam_photos call

ReadsPerPhoto == 3

\* mutant of KeepReading: a good frame does not break the loop
KeepReading_nobreak(tries, good) == tries < ReadsPerPhoto

\* lines 50-54: for _ in range(3), left by break at a good read
KeepReading(tries, good) == tries < ReadsPerPhoto /\ ~good

WebcamCalls ==
    [ pc : {"open"},
      num_photos : 0..MaxPhotosAsked,
      idx : {0},
      reads : {<<>>},      \* the reads made for the photo under way, TRUE = good
      ok : {FALSE},        \* the latest read was good
      history : {<<>>},    \* per photo done with: its reads
      failed : {{}},       \* photos declared failed (line 57)
      captured : {<<>>},
      released : {FALSE},
      raised : {""} ]

WebcamInit ==
    /\ WindowAtRest
    /\ shoot \in WebcamCalls
    /\ strip = None
    /\ dslr = None
    /\ cups = None
    /\ thread = None

WebcamUnchanged ==
    UNCHANGED <<config, win, cam, disk, jobs, clock, log, preview,
                strip, dslr, cups, thread>>

\* lines 33-45: the device opens, or RuntimeError
WebcamOpen ==
    /\ shoot.pc = "open"
    /\ \E opened \in BOOLEAN :
          shoot' = IF opened THEN [shoot EXCEPT !.pc = "next"]
                   ELSE [shoot EXCEPT !.pc = "raised", !.raised = "RuntimeError"]
    /\ WebcamUnchanged

\* line 48: for idx in range(num_photos)
WebcamNextPhoto ==
    /\ shoot.pc = "next"
    /\ shoot' = IF shoot.idx < shoot.num_photos
                THEN [shoot EXCEPT !.pc = "read", !.reads = <<>>]
                ELSE [shoot EXCEPT !.pc = "release"]
    /\ WebcamUnchanged

\* lines 50-54: one cap.read()
WebcamRead ==
    /\ shoot.pc = "read"
    /\ \E good \in BOOLEAN :
          LET reads == Append(shoot.reads, good)
          IN  shoot' = [shoot EXCEPT
                          !.reads = reads,
                          !.ok = good,
                          !.pc = IF KeepReading(Len(reads), good)
                                 THEN "read" ELSE "check"]
    /\ WebcamUnchanged

\* lines 56-58: the photo is declared failed, or goes on to be saved
WebcamCheck ==
    /\ shoot.pc = "check"
    /\ shoot' = IF ~shoot.ok
                THEN [shoot EXCEPT !.failed = @ \cup {shoot.idx + 1},
                                   !.history = Append(@, shoot.reads),
                                   !.idx = @ + 1,
                                   !.pc = "next"]
                ELSE [shoot EXCEPT !.pc = "save"]
    /\ WebcamUnchanged

\* lines 60-78: cv2.imwrite, and the wait before the next shot
WebcamSave ==
    /\ shoot.pc = "save"
    /\ \E success \in BOOLEAN :
          shoot' = [shoot EXCEPT
                      !.captured = IF success THEN Append(@, ShotName(shoot.idx + 1))
                                   ELSE @,
                      !.history = Append(@, shoot.reads),
                      !.idx = @ + 1,
                      !.pc = "next"]
    /\ WebcamUnchanged

\* lines 80-82
WebcamRelease ==
    /\ shoot.pc = "release"
    /\ shoot' = [shoot EXCEPT !.released = TRUE, !.pc = "returned"]
    /\ WebcamUnchanged

WebcamNext ==
    \/ WebcamOpen
    \/ WebcamNextPhoto
    \/ WebcamRead
    \/ WebcamCheck
    \/ WebcamSave
    \/ WebcamRelease

WebcamSpec == WebcamInit /\ [][WebcamNext]_vars

(***************************************************************************)
(* C27.  For each requested photo capture_webcam_photos makes at most 3    *)
(* frame reads and stops at the first good one; it declares the photo      *)
(* failed, and goes on with the next photo, exactly when all 3 reads       *)
(* failed.                                                                 *)
(***************************************************************************)
AllBad(reads) == \A j \in 1..Len(reads) : ~reads[j]

C27_ThreeReadsThenFail ==
    /\ Len(shoot.reads) <= 3
    /\ \A j \in 1..Len(shoot.reads) : shoot.reads[j] => j = Len(shoot.reads)
    /\ shoot.pc = "read" => AllBad(shoot.reads)
    /\ Len(shoot.history) = shoot.idx
    /\ \A k \in 1..Len(shoot.history) :
          /\ Len(shoot.history[k]) \in 1..3
          /\ \A j \in 1..Len(shoot.history[k]) :
                shoot.history[k][j] => j = Len(shoot.history[k])
          /\ k \in shoot.failed <=>
                (Len(shoot.history[k]) = 3 /\ AllBad(shoot.history[k]))
    /\ shoot.pc = "returned" => shoot.idx = shoot.num_photos

\* photo 1 failed after three bad reads, photo 2 was captured at its second
\* read
C27_Witness ==
    /\ shoot.pc = "returned"
    /\ shoot.failed = {1}
    /\ shoot.history = << <<FALSE, FALSE, FALSE>>, <<FALSE, TRUE>> >>
    /\ shoot.captured = <<"shot_2.jpg">>

(***************************************************************************)
(* app/capture/dslr.py: capture_dslr_photos on its own, shot by shot.      *)
(***************************************************************************)
MaxDslrShots == 3   \* num_photos of one capture_dslr_photos call

\* what subprocess.run(cmd, check=True) and the glob after it can give
GphotoOutcomes == {"file", "no_file", "CalledProcessError", "FileNotFoundError"}

\* mutant of AfterFinally: the exception of a failed shot ends the call
AfterFinally_abort(shot_failed) == IF shot_failed THEN "return" ELSE "next"

\* lines 69-81: the except clauses print, the finally block runs, and the
\* loop goes on with the next idx
AfterFinally(shot_failed) == "next"

\* mutant of rmtree: the temporary directory is left behind
rmtree_keep(dirs, tempdir) == dirs

\* shutil.rmtree(tempdir, ignore_errors=True)
rmtree(dirs, tempdir) == dirs \ {tempdir}

DslrCalls ==
    [ pc : {"next"},
      num_photos : 0..MaxDslrShots,
      idx : {0},
      tempdirs : {{}},     \* temporary directories that exist, by shot
      in_temp : {FALSE},   \* the shot's file lies in its temporary directory
      shot_failed : {FALSE},
      outcome : {""},      \* how the shot under way went
      printed : {<<>>},    \* per shot done with: how it went
      attempted : {{}},    \* shots gphoto2 was run for
      output_dir : {{}},   \* files moved into output_dir
      captured : {<<>>} ]

DslrInit ==
    /\ WindowAtRest
    /\ dslr \in DslrCalls
    /\ strip = None
    /\ shoot = None
    /\ cups = None
    /\ thread = None

DslrUnchanged ==
    UNCHANGED <<config, win, cam, disk, jobs, clock, log, preview,
                strip, shoot, cups, thread>>

\* lines 37-42: the loop head and tempfile.mkdtemp
DslrNextShot ==
    /\ dslr.pc = "next"
    /\ dslr.idx < dslr.num_photos
    /\ dslr' = [dslr EXCEPT !.tempdirs = @ \cup {dslr.idx + 1},
                            !.in_temp = FALSE,
                            !.shot_failed = FALSE,
                            !.pc = "run"]
    /\ DslrUnchanged

\* lines 46-59: gphoto2 runs; a non-zero exit or a missing program raises,
\* no file produced is a continue
DslrRun ==
    /\ dslr.pc = "run"
    /\ \E outcome \in GphotoOutcomes :
          dslr' = [dslr EXCEPT !.attempted = @ \cup {dslr.idx + 1},
                              !.in_temp = (outcome = "file"),
                              !.outcome = outcome,
                              !.shot_failed = (outcome # "file"),
                              !.pc = IF outcome = "file" THEN "move" ELSE "finally"]
    /\ DslrUnchanged

\* lines 61-64: jpgs[0].rename(dest); captured.append(dest)
DslrMove ==
    /\ dslr.pc = "move"
    /\ \E renamed \in BOOLEAN :
          dslr' = IF renamed
                  THEN [dslr EXCEPT !.in_temp = FALSE,
                                    !.output_dir = @ \cup {ShotName(dslr.idx + 1)},
                                    !.captured = Append(@, ShotName(dslr.idx + 1)),
                                    !.pc = "finally"]
                  ELSE [dslr EXCEPT !.shot_failed = TRUE, !.outcome = "OSError",
                                    !.pc = "finally"]
    /\ DslrUnchanged

\* lines 73-81: the finally block, then the wait before the next shot
DslrFinally ==
    /\ dslr.pc = "finally"
    /\ dslr' = [dslr EXCEPT !.tempdirs = rmtree(@, dslr.idx + 1),
                            !.in_temp = FALSE,
                            !.printed = Append(@, dslr.outcome),
                            !.idx = @ + 1,
                            !.pc = AfterFinally(dslr.shot_failed)]
    /\ DslrUnchanged

\* lines 83-84
DslrReturn ==
    /\ \/ dslr.pc = "next" /\ dslr.idx >= dslr.num_photos
       \/ dslr.pc = "return"
    /\ dslr' = [dslr EXCEPT !.pc = "returned"]
    /\ DslrUnchanged

DslrNext ==
    \/ DslrNextShot
    \/ DslrRun
    \/ DslrMove
    \/ DslrFinally
    \/ DslrReturn

DslrSpec == DslrInit /\ [][DslrNext]_vars

(***************************************************************************)
(* C28.  In capture_dslr_photos a failed external capture (non-zero exit,  *)
(* or no file produced) skips that shot only: every shot is attempted, the *)
(* list returned holds exactly the shots whose file was moved into         *)
(* output_dir as shot_<index>.jpg, in index order, and no temporary        *)
(* directory is left once a shot is done with, however it ended.           *)
(***************************************************************************)
RECURSIVE NamesOf(_, _, _)
NamesOf(moved, k, n) ==
    IF k > n THEN <<>>
    ELSE (IF ShotName(k) \in moved THEN <<ShotName(k)>> ELSE <<>>)
         \o NamesOf(moved, k + 1, n)

C28_DslrFailureSkipsShot ==
    /\ dslr.captured = NamesOf(dslr.output_dir, 1, dslr.num_photos)
    /\ dslr.tempdirs \subseteq {dslr.idx + 1}
    /\ dslr.pc \in {"next", "return", "returned"} => dslr.tempdirs = {}
    /\ dslr.attempted \subseteq 1..dslr.num_photos
    /\ \A k \in 1..Len(dslr.printed) :
          ShotName(k) \in dslr.output_dir <=> dslr.printed[k] = "file"
    /\ dslr.pc = "returned" =>
          /\ dslr.attempted = 1..dslr.num_photos
          /\ \A k \in 1..dslr.num_photos :
                ShotName(k) \in dslr.output_dir
                    <=> \E i \in 1..Len(dslr.captured) : dslr.captured[i] = ShotName(k)

\* shot 1 failed, shot 2 was still taken and is the only one returned
C28_Witness ==
    /\ dslr.pc = "returned"
    /\ dslr.num_photos = 2
    /\ dslr.printed = <<"CalledProcessError", "file">>
    /\ dslr.attempted = {1, 2}
    /\ dslr.captured = <<"shot_2.jpg">>
    /\ dslr.tempdirs = {}

(***************************************************************************)
(* app/print/cups_print.py: print_file_cups on its own.                    *)
(***************************************************************************)
MaxCopies == 2   \* copies of one print_file_cups call

\* what conn.getPrinters() lists, in its order
CupsListings ==
    {<<>>, <<"selphy">>, <<"office">>, <<"selphy", "office">>, <<"office", "selphy">>}

\* paper_name: None, or a media name
PaperNames == {[given |-> FALSE, name |-> ""], [given |-> TRUE, name |-> "Postcard"]}

CupsCalls ==
    [ pc : {"call"},
      image_path : {"print.jpg"},
      printer_name : {"", "selphy", "office"},
      copies : 1..MaxCopies,
      paper_name : PaperNames,
      printers : CupsListings,
      submit_ok : BOOLEAN,     \* conn.printFile returns a job id
      out : {None} ]

CupsInit ==
    /\ WindowAtRest
    /\ cups \in CupsCalls
    /\ strip = None
    /\ shoot = None
    /\ dslr = None
    /\ thread = None

CupsCall ==
    /\ cups.pc = "call"
    /\ cups' = [cups EXCEPT
                   !.pc = "done",
                   !.out = print_file_cups(cups.image_path, cups.printer_name,
                                           cups.copies, cups.paper_name,
                                           cups.printers, cups.submit_ok)]
    /\ UNCHANGED <<config, win, cam, disk, jobs, clock, log, preview,
                   strip, shoot, dslr, thread>>

CupsSpec == CupsInit /\ [][CupsCall]_vars

(***************************************************************************)
(* C29.  print_file_cups submits at most one job, and only to a listed     *)
(* printer: a printer_name that is not empty and not listed fails with the *)
(* printer-not-found error before anything is submitted, an empty          *)
(* printer_name selects the first listed printer, and an empty             *)
(* printer_name with nothing listed fails with the printer-not-found error *)
(* too.                                                                    *)
(***************************************************************************)
PrinterNotFound == "RuntimeError"

C29_PrinterSelection ==
    cups.pc = "done" =>
        /\ cups.out.raised = "" =>
              /\ InListing(cups.out.job.printer, cups.printers)
              /\ cups.out.job.file = cups.image_path
              /\ cups.out.job.copies = cups.copies
        /\ (cups.printer_name # "" /\ ~InListing(cups.printer_name, cups.printers))
              => cups.out.raised = PrinterNotFound
        /\ (cups.printer_name # "" /\ cups.out.raised = "")
              => cups.out.job.printer = cups.printer_name
        /\ (cups.printer_name = "" /\ cups.out.raised = "")
              => cups.out.job.printer = cups.printers[1]
        /\ (cups.printer_name = "" /\ cups.printers = <<>>)
              => cups.out.raised = PrinterNotFound

(***************************************************************************)
(* app/ui/preview_widget.py: one run of _run_webcam_preview with its       *)
(* failures: the device that does not open, the read that fails, the       *)
(* exception raised inside the try block.                                  *)
(***************************************************************************)
MaxThreadFrames == 2   \* frames one run of the loop handles
MaxBadReads == 2       \* failed reads in one run

ThreadInit ==
    /\ WindowAtRest
    /\ thread = [ pc |-> "create",
                  _running |-> TRUE,
                  cap |-> "none",       \* none, opened, unopened, released
                  frames |-> 0,         \* frames handled (emitted and stored)
                  bad_reads |-> 0,      \* reads that returned ok = False
                  last_read |-> "",     \* how the latest cap.read() went
                  cause |-> "",         \* why the loop was left
                  errors |-> 0 ]        \* error_occurred signals emitted
    /\ strip = None
    /\ shoot = None
    /\ dslr = None
    /\ cups = None

ThreadUnchanged ==
    UNCHANGED <<config, win, cam, disk, jobs, clock, log, preview,
                strip, shoot, dslr, cups>>

\* mutant of except_clause: the exception is swallowed without a signal
except_clause_silent(t) == [t EXCEPT !.pc = "finally"]

\* lines 69-70: except Exception as e: self.error_occurred.emit(...)
except_clause(t) == [t EXCEPT !.errors = @ + 1, !.pc = "finally"]

\* lines 46-53: cv2.VideoCapture(...), isOpened, the resolution
ThreadCreate ==
    /\ thread.pc = "create"
    /\ \E outcome \in {"opened", "unopened", "raises"} :
          thread' =
              CASE outcome = "opened" ->
                     [thread EXCEPT !.cap = "opened", !.pc = "loop"]
                [] outcome = "unopened" ->
                     [thread EXCEPT !.cap = "unopened", !.cause = "open_failed",
                                    !.errors = @ + 1, !.pc = "finally"]
                [] outcome = "raises" ->
                     [thread EXCEPT !.cause = "exception", !.pc = "except"]
    /\ ThreadUnchanged

\* line 55: while self._running
ThreadLoopTest ==
    /\ thread.pc = "loop"
    /\ thread' = IF thread._running
                 THEN [thread EXCEPT !.pc = "read"]
                 ELSE [thread EXCEPT !.cause = "stopped", !.pc = "finally"]
    /\ ThreadUnchanged

\* lines 56-59: cap.read(); a failed read sleeps and continues
ThreadRead ==
    /\ thread.pc = "read"
    /\ \E outcome \in {"frame", "not_ok", "raises"} :
          /\ outcome = "frame" => thread.frames < MaxThreadFrames
          /\ outcome = "not_ok" => thread.bad_reads < MaxBadReads
          /\ thread' =
                CASE outcome = "frame" ->
                       [thread EXCEPT !.last_read = outcome, !.pc = "convert"]
                  [] outcome = "not_ok" ->
                       [thread EXCEPT !.last_read = outcome, !.bad_reads = @ + 1,
                                      !.pc = "loop"]
                  [] outcome = "raises" ->
                       [thread EXCEPT !.last_read = outcome, !.cause = "exception",
                                      !.pc = "except"]
    /\ ThreadUnchanged

\* lines 60-67: cvtColor, QImage, frame_ready.emit, the locked store
ThreadConvert ==
    /\ thread.pc = "convert"
    /\ \E raises \in BOOLEAN :
          thread' = IF raises
                    THEN [thread EXCEPT !.cause = "exception", !.pc = "except"]
                    ELSE [thread EXCEPT !.frames = @ + 1, !.pc = "loop"]
    /\ ThreadUnchanged

ThreadExcept ==
    /\ thread.pc = "except"
    /\ thread' = except_clause(thread)
    /\ ThreadUnchanged

\* lines 71-73: finally: if 'cap' in locals(): cap.release()
ThreadFinally ==
    /\ thread.pc = "finally"
    /\ thread' = [thread EXCEPT
                     !.cap = IF thread.cap = "none" THEN "none" ELSE "released",
                     !.pc = "ended"]
    /\ ThreadUnchanged

\* CameraPreview.stop, called by the main thread (closeEvent)
ThreadStop ==
    /\ thread._running
    /\ thread.pc # "ended"
    /\ thread' = [thread EXCEPT !._running = FALSE]
    /\ ThreadUnchanged

ThreadNext ==
    \/ ThreadCreate
    \/ ThreadLoopTest
    \/ ThreadRead
    \/ ThreadConvert
    \/ ThreadExcept
    \/ ThreadFinally
    \/ ThreadStop

ThreadSpec == ThreadInit /\ [][ThreadNext]_vars

(***************************************************************************)
(* C30.  No failure ends the webcam preview thread silently: a device that *)
(* does not open, and any exception raised inside the frame loop, is       *)
(* turned into an error_occurred signal inside the thread before it ends;  *)
(* the capture device is released on every way out; and a failed frame     *)
(* read alone does not end the loop.                                       *)
(***************************************************************************)
C30_NoSilentThreadEnd ==
    /\ [](thread.pc \in {"finally", "ended"} =>
            /\ thread.cause \in {"open_failed", "exception", "stopped"}
            /\ thread.cause \in {"open_failed", "exception"} => thread.errors = 1
            /\ thread.cause = "stopped" => thread.errors = 0 /\ ~thread._running)
    /\ [](thread.pc = "ended" => thread.cap \in {"none", "released"})
    /\ [](thread.cap = "none" => thread.pc \in {"create", "except", "finally", "ended"})
    /\ [][ (thread.pc = "read" /\ thread'.last_read = "not_ok"
              /\ thread'.bad_reads # thread.bad_reads)
           => thread'.pc = "loop" /\ thread'.cause = "" ]_vars

\* a read failed, the loop went on and handled a frame, then an exception
\* ended the thread with a signal and the device released
C30_Witness ==
    /\ thread.pc = "ended"
    /\ thread.bad_reads >= 1
    /\ thread.frames >= 1
    /\ thread.cause = "exception"
    /\ thread.errors = 1
    /\ thread.cap = "released"

====
